---- MODULE Spec2Model ----
(***************************************************************************)
(* State machine of SlideShowWindow (src/main.py): the playlist, the two   *)
(* image layers, the flags animating / is_transitioning / is_paused, the   *)
(* two Qt timers, the 50 ms post-finalization callback and the stopwatches *)
(* (QElapsedTimer) behind the slide and the transition timelines.          *)
(*                                                                         *)
(* Time is in milliseconds.  A stopwatch is modelled by its reading        *)
(* elapsed(), a timer by the time left until it fires; Off marks a         *)
(* stopwatch attribute that does not exist / a timer that is not armed.    *)
(***************************************************************************)
EXTENDS Integers, Sequences, FiniteSets, TLC

\* ---------------------------------------------------------------- bounds
MaxImages == 3
IntervalMs == 1000
FadeMs == 400
LongFadeMs == 1500
ShortFadeMs == 200
MaxElapsedMs == 1250
MaxPauseMs == 82
MaxUserCost == 4
MaxUserMs == 1200
MaxDialogMs == 82
MaxFlaky == 1
MaxPixmaps == 3

\* ------------------------------------------------------ program constants
ANIM_FPS == 24
max_retries == 3
RetrySleepMs == 100
RetryDelayMs == 100
SkipThreshold == 3
MinRemainingMs == 100
FinishDelayMs == 50
cache_max_size == 3

\* ------------------------------------------------------------ configuration
interval_ms == IF IntervalMs >= 1 THEN IntervalMs ELSE 1
anim_duration == interval_ms
anim_fps_interval == 1000 \div ANIM_FPS

\* The user's inputs are looked at with the grain of one frame interval.
UserDelayMs == anim_fps_interval
ken_burns == TRUE
DefaultEffects == <<"crossfade", "fade_to_black">>
effect_order == "sequential"

Off == 0 - 1
NoneEffect == "None"
Paths == 1 .. MaxImages

NoItem == [st |-> "none", img |-> 0]
LiveItem(p) == [st |-> "live", img |-> p]

\* A layer's opacity, kept as the expression that was evaluated for it: of
\* names the expression in the eased effect progress t, x is the progress
\* (in ms of fade_duration_ms) t was eased from.
Opaque == [of |-> "1", x |-> 0]
Transparent == [of |-> "0", x |-> 0]
\* What a layer has before anything sets it, and what stands for the
\* opacity of a layer that does not exist.
NoOpacity == [current |-> Opaque, next |-> Opaque]

Min(a, b) == IF a <= b THEN a ELSE b
Max(a, b) == IF a >= b THEN a ELSE b

VARIABLES
    image_files, index, load_error_count,
    current_item, next_item,
    is_transitioning, animating, is_paused,
    next_effect, current_effect_index,
    anim_elapsed_timer, transition_elapsed_timer,
    pause_start_time, pause_duration,
    slide_timer, animation_timer, single_shots,
    is_loading, closed, dialog, fade_duration_ms, enabled_effects,
    opacity,
    flaky, removed_files,
    ev, frame, hist,
    pixmap_cache, cache_ev, ken

progVars == <<image_files, index, load_error_count, current_item, next_item,
              is_transitioning, animating, is_paused, next_effect,
              current_effect_index, anim_elapsed_timer,
              transition_elapsed_timer, pause_start_time, pause_duration,
              slide_timer, animation_timer, single_shots, is_loading, closed,
              fade_duration_ms, enabled_effects, opacity>>
\* What the window's handlers leave alone in this development: the scaled-
\* pixmap cache is exercised on its own, by CacheSpec, and the Ken Burns
\* parameters by KenSpec.
pureVars == <<pixmap_cache, cache_ev, ken>>
showVars == <<progVars, dialog, flaky, removed_files, ev, frame, hist>>
vars == <<showVars, pureVars>>

\* The window object as one record, so that a handler is a function of it.
Self ==
    [image_files |-> image_files, index |-> index,
     load_error_count |-> load_error_count,
     current_item |-> current_item, next_item |-> next_item,
     is_transitioning |-> is_transitioning, animating |-> animating,
     is_paused |-> is_paused, next_effect |-> next_effect,
     current_effect_index |-> current_effect_index,
     anim_elapsed_timer |-> anim_elapsed_timer,
     transition_elapsed_timer |-> transition_elapsed_timer,
     pause_start_time |-> pause_start_time, pause_duration |-> pause_duration,
     slide_timer |-> slide_timer, animation_timer |-> animation_timer,
     single_shots |-> single_shots, is_loading |-> is_loading,
     closed |-> closed, opacity |-> opacity]

Becomes(s) ==
    /\ image_files' = s.image_files
    /\ index' = s.index
    /\ load_error_count' = s.load_error_count
    /\ current_item' = s.current_item
    /\ next_item' = s.next_item
    /\ is_transitioning' = s.is_transitioning
    /\ animating' = s.animating
    /\ is_paused' = s.is_paused
    /\ next_effect' = s.next_effect
    /\ current_effect_index' = s.current_effect_index
    /\ anim_elapsed_timer' = s.anim_elapsed_timer
    /\ transition_elapsed_timer' = s.transition_elapsed_timer
    /\ pause_start_time' = s.pause_start_time
    /\ pause_duration' = s.pause_duration
    /\ slide_timer' = s.slide_timer
    /\ animation_timer' = s.animation_timer
    /\ single_shots' = s.single_shots
    /\ is_loading' = s.is_loading
    /\ closed' = s.closed
    /\ opacity' = s.opacity
    /\ UNCHANGED <<fade_duration_ms, enabled_effects, pureVars>>

\* ------------------------------------------------------------------ clocks
Run(w, d) == IF w = Off THEN Off ELSE w + d
Left(t, d) == IF t = Off THEN Off ELSE Max(0, t - d)

\* d milliseconds go by: stopwatches read d more, timers have d less to go.
Sleep(s, d) ==
    [s EXCEPT !.anim_elapsed_timer = Run(@, d),
              !.transition_elapsed_timer = Run(@, d),
              !.pause_start_time = Run(@, d),
              !.slide_timer = Left(@, d),
              !.animation_timer = Left(@, d),
              !.single_shots = {Left(t, d) : t \in @}]

\* ------------------------------------------------------------------- scene
Deleted(item) == IF item.st = "live" THEN [item EXCEPT !.st = "dead"] ELSE item

\* QGraphicsScene.clear(): every item of the scene is removed and deleted;
\* the Python references current_item / next_item keep pointing at them.
SceneClear(s) ==
    [s EXCEPT !.current_item = Deleted(@), !.next_item = Deleted(@)]

ShowNoImagesMessage(s) ==
    [SceneClear(s) EXCEPT !.current_item = [st |-> "live", img |-> 0],
                          !.opacity.current = Opaque]

\* _show_first_image; ok is the outcome of create_pixmap_from_file.
ShowFirstImage(s, ok) ==
    IF s.image_files = <<>> THEN ShowNoImagesMessage(s)
    ELSE LET c == SceneClear(s)
             path == s.image_files[s.index + 1]
         IN  IF ~ok THEN c
             ELSE [c EXCEPT !.current_item = LiveItem(path),
                            !.next_item = NoItem,
                            !.opacity = NoOpacity,
                            !.is_transitioning = FALSE,
                            !.next_effect = NoneEffect,
                            !.animating = TRUE,
                            !.animation_timer = anim_fps_interval]

\* _select_next_effect: <<effect, cursor after the call>>.
SelectNextEffect(s) ==
    IF enabled_effects = <<>> THEN <<"none", s.current_effect_index>>
    ELSE <<enabled_effects[s.current_effect_index + 1],
           (s.current_effect_index + 1) % Len(enabled_effects)>>

\* ------------------------------------------------------------ pause/resume
\* Variant: a resume forgets the pauses before the last one.
PauseOverwritten(s) == s.pause_start_time

PauseAccumulated(s) ==
    IF s.pause_duration # Off THEN s.pause_duration + s.pause_start_time
    ELSE s.pause_start_time

RemainingTime(s) ==
    LET actual_elapsed ==
            s.anim_elapsed_timer
              - (IF s.pause_duration # Off THEN s.pause_duration ELSE 0)
    IN  Max(MinRemainingMs, anim_duration - actual_elapsed)

\* Variant: pausing leaves the frame timer running.
TogglePauseKeepsFrames(s) ==
    IF ~s.is_paused
    THEN [s EXCEPT !.is_paused = TRUE,
                   !.slide_timer = Off,
                   !.pause_start_time = 0]
    ELSE LET r == IF s.pause_start_time # Off
                  THEN [s EXCEPT !.is_paused = FALSE,
                                 !.pause_duration = PauseAccumulated(s),
                                 !.pause_start_time = Off]
                  ELSE [s EXCEPT !.is_paused = FALSE]
         IN  IF r.animating
             THEN [r EXCEPT !.animation_timer = anim_fps_interval,
                            !.slide_timer =
                                IF r.anim_elapsed_timer # Off
                                THEN RemainingTime(r) ELSE interval_ms]
             ELSE [r EXCEPT !.slide_timer = interval_ms]

TogglePause(s) ==
    IF ~s.is_paused
    THEN [s EXCEPT !.is_paused = TRUE,
                   !.slide_timer = Off,
                   !.animation_timer = Off,
                   !.pause_start_time = 0]
    ELSE LET r == IF s.pause_start_time # Off
                  THEN [s EXCEPT !.is_paused = FALSE,
                                 !.pause_duration = PauseAccumulated(s),
                                 !.pause_start_time = Off]
                  ELSE [s EXCEPT !.is_paused = FALSE]
         IN  IF r.animating
             THEN [r EXCEPT !.animation_timer = anim_fps_interval,
                            !.slide_timer =
                                IF r.anim_elapsed_timer # Off
                                THEN RemainingTime(r) ELSE interval_ms]
             ELSE [r EXCEPT !.slide_timer = interval_ms]

\* ------------------------------------------------------- manual navigation
GoNext(s, ok) ==
    LET a == [s EXCEPT !.slide_timer = Off, !.animation_timer = Off,
                       !.animating = FALSE, !.is_paused = FALSE]
    IN  IF a.image_files = <<>> THEN a
        ELSE ShowFirstImage(
                 [SceneClear(a) EXCEPT
                     !.index = (a.index + 1) % Len(a.image_files)], ok)

GoPrev(s, ok) ==
    IF s.image_files = <<>> THEN s
    ELSE ShowFirstImage(
             [s EXCEPT !.slide_timer = Off, !.animation_timer = Off,
                       !.animating = FALSE, !.is_paused = FALSE,
                       !.index = (s.index - 1 + Len(s.image_files))
                                     % Len(s.image_files)], ok)

\* ------------------------------------------------------------ frame tick
\* Numerator of min(1.0, elapsed / duration) over the denominator duration.
Progress(elapsed, duration) == IF elapsed >= duration THEN duration ELSE elapsed

\* The slide timeline: _anim_elapsed_timer.elapsed() less _pause_duration.
ElapsedMs(s) ==
    s.anim_elapsed_timer - (IF s.pause_duration # Off THEN s.pause_duration ELSE 0)

\* The transition timeline: _paused_transition_offset is never assigned, so
\* this is the plain reading of _transition_elapsed_timer.
TransitionElapsed(s) == s.transition_elapsed_timer

InEffect(s) == s.is_transitioning /\ s.next_effect # NoneEffect

\* 0.5 - 0.5*cos(x*pi) is below 0.4 while x < acos(0.2)/pi = 0.435906...,
\* and below 0.6 while x < acos(-0.2)/pi = 0.564094...
FadePhase(te, duration) ==
    LET x == Progress(te, duration)
    IN  IF x * 1000000 < 435906 * duration THEN 1
        ELSE IF x * 1000000 < 564094 * duration THEN 2 ELSE 3

\* The layers an effect's opacity function reads or writes, in order.
Touched(effect, phase) ==
    CASE effect = "crossfade" -> {"next", "current"}
      [] effect = "zoom" -> {"next", "current"}
      [] effect = "wipe" -> {"next", "current"}
      [] effect = "fade_to_black" ->
            (CASE phase = 1 -> {"current"}
               [] phase = 2 -> {"next", "current"}
               [] OTHER -> {"next"})
      [] OTHER -> {}

\* 0.5 - 0.5*cos(x*pi) at progress x/duration: 0 at 0, 1.0 at 1.
Eased(x, duration) ==
    IF x <= 0 THEN Transparent
    ELSE IF x >= duration THEN Opaque ELSE [of |-> "t", x |-> x]

\* 1.0 - t
Complement(x, duration) ==
    IF x <= 0 THEN Opaque
    ELSE IF x >= duration THEN Transparent ELSE [of |-> "1-t", x |-> x]

\* 1.0 - t/0.4, evaluated while t < 0.4
FadeOut(x, duration) ==
    IF x <= 0 THEN Opaque ELSE [of |-> "1-t/0.4", x |-> x]

\* (t - 0.6)/0.4, evaluated once t >= 0.6
FadeIn(x, duration) ==
    IF x >= duration THEN Opaque ELSE [of |-> "(t-0.6)/0.4", x |-> x]

\* The setOpacity calls one tick of the effect makes, in the order made:
\* those of _apply_ken_burns_during_transition, then the effect's function.
Writes(effect, x, duration) ==
    CASE effect = "crossfade" ->
            << <<"next", Eased(x, duration)>>,
               <<"current", Complement(x, duration)>> >>
      [] effect = "zoom" ->
            << <<"current", Complement(x, duration)>>,
               <<"next", Eased(x, duration)>> >>
      [] effect = "wipe" ->
            IF x >= duration
            THEN << <<"current", Transparent>>, <<"next", Opaque>> >>
            ELSE << <<"current", Opaque>>, <<"next", Opaque>> >>
      [] effect = "fade_to_black" ->
            (CASE FadePhase(x, duration) = 1 ->
                      << <<"current", FadeOut(x, duration)>> >>
               [] FadePhase(x, duration) = 2 ->
                      << <<"current", Transparent>>, <<"next", Transparent>> >>
               [] OTHER -> << <<"next", FadeIn(x, duration)>> >>)
      [] effect = "slide" ->
            << <<"current", Opaque>>, <<"next", Opaque>> >>
      [] OTHER -> << >>

\* The calls take effect one after the other; a layer that is None is passed
\* over, and a deleted one raises, which ends the calls where they stand.
RECURSIVE ApplyWrites(_, _)
ApplyWrites(s, ws) ==
    IF ws = << >> THEN s
    ELSE LET layer == ws[1][1]
             item == IF layer = "next" THEN s.next_item ELSE s.current_item
         IN  IF item.st = "dead" THEN s
             ELSE IF item.st = "none" THEN ApplyWrites(s, Tail(ws))
             ELSE ApplyWrites([s EXCEPT !.opacity[layer] = ws[1][2]], Tail(ws))

ApplyEffect(s) ==
    ApplyWrites(s, Writes(s.next_effect,
                          Progress(TransitionElapsed(s), fade_duration_ms),
                          fade_duration_ms))

\* A call on a layer whose C++ object scene.clear() has deleted raises
\* RuntimeError, which ends the handler where it stands.
EffectRaises(s) ==
    LET touched == Touched(s.next_effect,
                           FadePhase(TransitionElapsed(s), fade_duration_ms))
    IN  \/ "next" \in touched /\ s.next_item.st = "dead"
        \/ "current" \in touched /\ s.current_item.st = "dead"

KenBurnsNormalRaises(s) ==
    /\ ken_burns
    /\ \/ s.current_item.st = "dead"
       \/ s.current_item.st = "live" /\ s.current_item.img = 0

\* _finish_animation
FinishAnimation(s) ==
    LET a == [s EXCEPT !.anim_elapsed_timer = Off,
                       !.transition_elapsed_timer = Off,
                       !.pause_duration = Off,
                       !.pause_start_time = Off,
                       !.is_transitioning = FALSE,
                       !.next_effect = NoneEffect]
    IN  IF a.next_item.st # "none"
           /\ (a.current_item.st = "dead" \/ a.next_item.st = "dead")
        THEN a
        ELSE LET b == IF a.next_item.st # "none"
                      THEN [a EXCEPT !.current_item = a.next_item,
                                     !.next_item = NoItem,
                                     !.opacity = NoOpacity]
                      ELSE a
             IN  [b EXCEPT !.animating = FALSE,
                           !.animation_timer = Off,
                           !.single_shots =
                               IF b.is_paused THEN @ ELSE @ \cup {FinishDelayMs}]

\* The first tick of an animation starts the stopwatches it finds missing.
WithAnimTimer(s) ==
    IF s.anim_elapsed_timer = Off THEN [s EXCEPT !.anim_elapsed_timer = 0] ELSE s

WithTransitionTimer(s) ==
    IF InEffect(s) /\ s.transition_elapsed_timer = Off
    THEN [s EXCEPT !.transition_elapsed_timer = 0] ELSE s

\* Whether _on_anim_frame gets past its two early returns.
FrameRuns(s) == s.animating /\ ~s.is_paused

\* Variant: the tick finishes the animation when the effect's own progress
\* is complete.
OnAnimFrameOnEffect(s) ==
    IF ~FrameRuns(s) THEN s
    ELSE LET b == WithTransitionTimer(WithAnimTimer(s))
             raises == IF InEffect(b) THEN EffectRaises(b)
                       ELSE KenBurnsNormalRaises(b)
             done == IF InEffect(b)
                     THEN TransitionElapsed(b) >= fade_duration_ms
                     ELSE ElapsedMs(b) >= anim_duration
         IN  IF raises THEN b
             ELSE IF done THEN FinishAnimation(b)
             ELSE b

\* _on_anim_frame
OnAnimFrame(s) ==
    IF ~FrameRuns(s) THEN s
    ELSE LET b == WithTransitionTimer(WithAnimTimer(s))
             t_linear == Progress(ElapsedMs(b), anim_duration)
             raises == IF InEffect(b) THEN EffectRaises(b)
                       ELSE KenBurnsNormalRaises(b)
             c == IF InEffect(b) THEN ApplyEffect(b) ELSE b
         IN  IF raises THEN c
             ELSE IF t_linear >= anim_duration THEN FinishAnimation(c)
             ELSE c

\* ----------------------------------------------------------------- advance
\* Variant: the advance targets the entry it is already on.
NextIndexStuck(s) == s.index % Len(s.image_files)

NextIndex(s) == (s.index + 1) % Len(s.image_files)

RemoveFirst(seq, x) ==
    LET i == CHOOSE k \in 1 .. Len(seq) :
                 seq[k] = x /\ \A j \in 1 .. (k - 1) : seq[j] # x
    IN  SubSeq(seq, 1, i - 1) \o SubSeq(seq, i + 1, Len(seq))

\* Variant: failures are counted but the path is never dropped.
LoadFailedKeeps(s, next_index) ==
    LET path == s.image_files[next_index + 1]
    IN  [s EXCEPT !.load_error_count[path] = @ + 1,
                  !.slide_timer = RetryDelayMs]

\* Variant: every failed try of the retry loop is counted.
LoadFailedCountsTries(s, next_index) ==
    LET path == s.image_files[next_index + 1]
        count == s.load_error_count[path] + max_retries
        a == [s EXCEPT !.load_error_count[path] = count]
    IN  IF count >= SkipThreshold
        THEN LET files == RemoveFirst(a.image_files, path)
             IN  IF files # <<>>
                 THEN [a EXCEPT !.image_files = files,
                                !.index = a.index % Len(files),
                                !.slide_timer = RetryDelayMs]
                 ELSE [a EXCEPT !.image_files = files]
        ELSE [a EXCEPT !.slide_timer = RetryDelayMs]

\* Variant: a permanent skip leaves index as it is.
LoadFailedKeepsIndex(s, next_index) ==
    LET path == s.image_files[next_index + 1]
        count == s.load_error_count[path] + 1
        a == [s EXCEPT !.load_error_count[path] = count]
    IN  IF count >= SkipThreshold
        THEN LET files == RemoveFirst(a.image_files, path)
             IN  IF files # <<>>
                 THEN [a EXCEPT !.image_files = files,
                                !.slide_timer = RetryDelayMs]
                 ELSE [a EXCEPT !.image_files = files]
        ELSE [a EXCEPT !.slide_timer = RetryDelayMs]

\* The failure branch of _on_slide_timeout for the target path.
LoadFailed(s, next_index) ==
    LET path == s.image_files[next_index + 1]
        count == s.load_error_count[path] + 1
        a == [s EXCEPT !.load_error_count[path] = count]
    IN  IF count >= SkipThreshold
        THEN LET files == RemoveFirst(a.image_files, path)
             IN  IF files # <<>>
                 THEN [a EXCEPT !.image_files = files,
                                !.index = a.index % Len(files),
                                !.slide_timer = RetryDelayMs]
                 ELSE [a EXCEPT !.image_files = files]
        ELSE [a EXCEPT !.slide_timer = RetryDelayMs]

\* Variant: a successful load leaves the failure counter as it is.
LoadSucceededKeepsCount(s, next_index) ==
    LET path == s.image_files[next_index + 1]
        sel == SelectNextEffect(s)
        a == [s EXCEPT !.next_effect = sel[1],
                       !.current_effect_index = sel[2]]
    IN  IF a.current_item.st = "dead" THEN a
        ELSE [a EXCEPT !.animating = TRUE,
                       !.is_transitioning = TRUE,
                       !.next_item = LiveItem(path),
                       !.opacity.next = Transparent,
                       !.animation_timer = anim_fps_interval,
                       !.index = next_index]

\* The success branch: the effect is chosen, the outgoing pose is frozen
\* (a call on current_item), then the transition starts.
LoadSucceeded(s, next_index) ==
    LET path == s.image_files[next_index + 1]
        sel == SelectNextEffect(s)
        a == [s EXCEPT !.load_error_count[path] = 0,
                       !.next_effect = sel[1],
                       !.current_effect_index = sel[2]]
    IN  IF a.current_item.st = "dead" THEN a
        ELSE [a EXCEPT !.animating = TRUE,
                       !.is_transitioning = TRUE,
                       !.next_item = LiveItem(path),
                       !.opacity.next = Transparent,
                       !.animation_timer = anim_fps_interval,
                       !.index = next_index]

\* Variant: the advance does not look at animating.
OnSlideTimeoutWhileAnimating(s, fails) ==
    IF s.is_paused THEN [s EXCEPT !.slide_timer = interval_ms]
    ELSE IF s.image_files = <<>> THEN s
    ELSE LET a == IF s.index >= Len(s.image_files)
                  THEN [s EXCEPT !.index = 0] ELSE s
             b == Sleep(a, fails * RetrySleepMs)
         IN  IF fails >= max_retries THEN LoadFailed(b, NextIndex(a))
             ELSE LoadSucceeded(b, NextIndex(a))

\* Variant: the advance does not look at is_paused.
OnSlideTimeoutWhilePaused(s, fails) ==
    IF s.animating THEN s
    ELSE IF s.image_files = <<>> THEN s
    ELSE LET a == IF s.index >= Len(s.image_files)
                  THEN [s EXCEPT !.index = 0] ELSE s
             b == Sleep(a, fails * RetrySleepMs)
         IN  IF fails >= max_retries THEN LoadFailed(b, NextIndex(a))
             ELSE LoadSucceeded(b, NextIndex(a))

\* _on_slide_timeout (never called with force_next_item); fails is the number
\* of create_pixmap_from_file calls that returned a null pixmap.
OnSlideTimeout(s, fails) ==
    IF s.animating THEN s
    ELSE IF s.is_paused THEN [s EXCEPT !.slide_timer = interval_ms]
    ELSE IF s.image_files = <<>> THEN s
    ELSE LET a == IF s.index >= Len(s.image_files)
                  THEN [s EXCEPT !.index = 0] ELSE s
             b == Sleep(a, fails * RetrySleepMs)
         IN  IF fails >= max_retries THEN LoadFailed(b, NextIndex(a))
             ELSE LoadSucceeded(b, NextIndex(a))

\* ------------------------------------------------------------------ delete
Close(s) == [s EXCEPT !.slide_timer = Off, !.animation_timer = Off,
                      !.closed = TRUE]

DeleteAt(seq, i) == SubSeq(seq, 1, i) \o SubSeq(seq, i + 2, Len(seq))

\* _delete_current_image after the user answered Yes; rm_ok says whether
\* os.remove succeeded, ok whether the image shown next decodes.
DeleteConfirmed(s, rm_ok, ok) ==
    IF ~rm_ok \/ s.index >= Len(s.image_files) THEN s
    ELSE LET files == DeleteAt(s.image_files, s.index)
             a == [s EXCEPT !.image_files = files]
         IN  IF files = <<>> THEN Close(a)
             ELSE LET b == IF a.index >= Len(files)
                           THEN [a EXCEPT !.index = 0] ELSE a
                  IN  [ShowFirstImage(b, ok) EXCEPT
                          !.is_paused = FALSE,
                          !.slide_timer = interval_ms]

\* ------------------------------------------------------------ environment
\* create_pixmap_from_file on path p: a file removed from the disk never
\* decodes, a flaky file may or may not, any other file always does.
DecodeOutcomes(p) ==
    IF p \in removed_files THEN {FALSE}
    ELSE IF p \in flaky THEN BOOLEAN ELSE {TRUE}

\* Null pixmaps met by the retry loop: max_retries means every try failed.
FailChoices(p) ==
    IF p \in removed_files THEN {max_retries}
    ELSE IF p \in flaky THEN 0 .. max_retries ELSE {0}

\* Whether _on_slide_timeout gets as far as loading the target image.
AdvanceLoads(s) == ~s.animating /\ ~s.is_paused /\ s.image_files # <<>>

TargetPath(s) ==
    LET a == IF s.index >= Len(s.image_files) THEN [s EXCEPT !.index = 0] ELSE s
    IN  a.image_files[NextIndex(a) + 1]

ShownPath(s) == s.image_files[s.index + 1]

\* ------------------------------------------------------------------- cache
\* _pixmap_cache is a dict, which keeps insertion order: the sequence of its
\* keys, oldest first.  A key is the pixmap's cacheKey() and for_anim (the
\* viewport, ken_burns and fit_mode parts do not change during a show).
CacheKeys == [pix : 1 .. MaxPixmaps, for_anim : BOOLEAN]

Holds(cache, key) == \E i \in 1 .. Len(cache) : cache[i] = key

\* _manage_cache: drop oldest entries while there are more than the maximum.
RECURSIVE ManageCache(_)
ManageCache(cache) ==
    IF Len(cache) > cache_max_size THEN ManageCache(Tail(cache)) ELSE cache

\* _get_scaled_pixmap's effect on the cache; null says the pixmap given is
\* null, scaled_ok that scaling gave a valid pixmap of at least 1 x 1.
GetScaledPixmap(cache, key, null, scaled_ok) ==
    IF null THEN cache
    ELSE IF Holds(cache, key) THEN cache
    ELSE IF ~scaled_ok THEN cache
    ELSE Append(ManageCache(cache), key)

NoCacheEvent == [before |-> <<>>, key |-> [pix |-> 0, for_anim |-> FALSE],
                 stored |-> FALSE]

\* -------------------------------------------------------------- Ken Burns
\* Scales are in thousandths (1.0 is ScaleUnit); random.random() draws are
\* thousandths too, from a grid on which the code's products are whole.
ScaleUnit == 1000
RandomDraws == {0, 500, 980}
MinIntensity == 1
MaxIntensity == 10
MOVEMENT_PATTERNS == {"linear", "arc", "wave", "spiral_in", "zigzag"}
FitModes == {"cover", "contain"}
\* Pixmap and viewport sides, and (cos, sin) of the spiral's start angle in
\* fifths.
Sizes == {4, 16}
Viewports == {<<4, 4>>, <<16, 4>>}
Directions == {<<5, 0>>, <<3, 4>>, <<0, 5>>, <<0 - 4, 3>>,
               <<0 - 5, 0>>, <<0 - 3, 0 - 4>>, <<0, 0 - 5>>, <<4, 0 - 3>>}
Signs == {0 - 1, 1}

\* Variant: the start scale as computed, without the 105%..200% clamp.
ScalesUnclamped(ken_intensity, r1, r2) ==
    LET base_zoom == ken_intensity * (ScaleUnit \div 10)
        random_offset == ((r1 - 500) * 2) \div 10
    IN  <<ScaleUnit + base_zoom + random_offset, ScaleUnit + (r2 * 5) \div 100>>

\* _calculate_ken_burns_scales, on the draws r1 and r2
CalculateKenBurnsScales(ken_intensity, r1, r2) ==
    LET base_zoom == ken_intensity * (ScaleUnit \div 10)
        random_offset == ((r1 - 500) * 2) \div 10
        total_zoom == base_zoom + random_offset
        start_scale == Max(1050, Min(2000, ScaleUnit + total_zoom))
        end_scale == ScaleUnit + (r2 * 5) \div 100
    IN  <<start_scale, end_scale>>

\* Exact fractions, kept in lowest terms with a positive denominator.
RECURSIVE GCD(_, _)
GCD(a, b) == IF b = 0 THEN a ELSE GCD(b, a % b)
Abs(a) == IF a < 0 THEN 0 - a ELSE a
Rat(n, d) ==
    LET g == GCD(Abs(n), Abs(d))
        sg == IF d < 0 THEN 0 - 1 ELSE 1
    IN  [n |-> sg * (n \div g), d |-> sg * (d \div g)]
RMul(a, b) == LET x == Rat(a.n, b.d)
                  y == Rat(b.n, a.d)
              IN  Rat(x.n * y.n, x.d * y.d)
RSub(a, b) == Rat(a.n * b.d - b.n * a.d, a.d * b.d)
RAdd(a, b) == Rat(a.n * b.d + b.n * a.d, a.d * b.d)
RLeq(a, b) == a.n * b.d <= b.n * a.d
RMax(a, b) == IF RLeq(b, a) THEN a ELSE b
RMin(a, b) == IF RLeq(a, b) THEN a ELSE b
\* int(): the fraction towards zero
Trunc(a) == IF a.n >= 0 THEN a.n \div a.d ELSE 0 - ((0 - a.n) \div a.d)
\* random.uniform(lo, hi) on the draw u
Uniform(lo, hi, u) == RAdd(lo, RMul(RSub(hi, lo), Rat(u, 1000)))

\* Variant: the end position is drawn within the allowed range whatever the
\* fit mode and the pattern.
EndOffsetsAlwaysDrawn(fit_mode, movement_pattern, end_max_off_x, end_max_off_y) ==
    { <<Trunc(RMul(Uniform(Rat(0 - 1, 1), Rat(1, 1), u1), Rat(3, 1))),
        Trunc(RMul(Uniform(Rat(0 - 1, 1), Rat(1, 1), u2), Rat(3, 1)))>> :
        u1 \in RandomDraws, u2 \in RandomDraws }

\* The end positions _calculate_ken_burns_offsets can return (main.py
\* 1351-1377), over its draws.
EndOffsets(fit_mode, movement_pattern, end_max_off_x, end_max_off_y) ==
    LET Neg(a) == Rat(0 - a.n, a.d)
    IN  IF fit_mode = "contain" THEN {<<0, 0>>}
        ELSE IF movement_pattern \in {"wave", "zigzag"}
        THEN LET safe_factor == Rat(3, 10)
                 lx == RMul(end_max_off_x, safe_factor)
                 ly == RMul(end_max_off_y, safe_factor)
             IN  { <<Trunc(Uniform(Neg(lx), lx, u1)),
                     Trunc(Uniform(Neg(ly), ly, u2))>> :
                     u1 \in RandomDraws, u2 \in RandomDraws }
        ELSE IF movement_pattern = "spiral_in" THEN {<<Trunc(Rat(0, 1)), Trunc(Rat(0, 1))>>}
        ELSE { <<Trunc(RMul(Uniform(Neg(end_max_off_x), end_max_off_x, u[1]),
                            RMul(Rat(u[3], 1000), Rat(4, 10)))),
                 Trunc(RMul(Uniform(Neg(end_max_off_y), end_max_off_y, u[2]),
                            RMul(Rat(u[3], 1000), Rat(4, 10))))>> :
                 u \in RandomDraws \X RandomDraws \X RandomDraws }

\* The start positions it can return (main.py 1328-1349).
StartOffsets(movement_pattern, start_max_off_x, start_max_off_y, intensity_factor) ==
    LET Factor(lo, span, r) == RAdd(Rat(lo, 10), RMul(Rat(r, 1000), Rat(span, 10)))
        Off1(m, f, k) == Trunc(RMul(RMul(RMul(Rat(k[1], k[2]), m), f),
                                    intensity_factor))
    IN  IF movement_pattern = "spiral_in"
        THEN { <<Off1(start_max_off_x, Factor(5, 2, r), <<a[1], 5>>),
                 Off1(start_max_off_y, Factor(5, 2, r), <<a[2], 5>>)>> :
                 r \in RandomDraws, a \in Directions }
        ELSE IF movement_pattern = "arc"
        THEN { <<Off1(start_max_off_x, Factor(7, 2, d[1]), <<d[3], 1>>),
                 Off1(start_max_off_y, Factor(3, 3, d[2]), <<d[4], 1>>)>> :
                 d \in RandomDraws \X RandomDraws \X Signs \X Signs }
             \cup
             { <<Off1(start_max_off_x, Factor(3, 3, d[1]), <<d[3], 1>>),
                 Off1(start_max_off_y, Factor(7, 2, d[2]), <<d[4], 1>>)>> :
                 d \in RandomDraws \X RandomDraws \X Signs \X Signs }
        ELSE { <<Off1(start_max_off_x, Factor(7, 2, d[1]), <<d[2], 1>>),
                 Off1(start_max_off_y, Factor(7, 2, d[1]), <<d[3], 1>>)>> :
                 d \in RandomDraws \X Signs \X Signs }

\* _calculate_ken_burns_offsets: the <<start_off, end_off>> pairs it can
\* return for a pw x ph pixmap in a vw x vh viewport once random.choice has
\* picked movement_pattern.
CalculateKenBurnsOffsets(pw, ph, vw, vh, fit_mode, ken_intensity, movement_pattern, start_scale, end_scale) ==
    IF ~ken_burns THEN {<<(<<0, 0>>), (<<0, 0>>)>>}
    ELSE
    LET sx == Rat(vw, pw)
        sy == Rat(vh, ph)
        base_scale == IF fit_mode = "cover" THEN RMax(sx, sy) ELSE RMin(sx, sy)
        intensity_factor == Rat(ken_intensity, 10)
        zero == Rat(0, 1)
        MaxOff(side, view, scale) ==
            RMax(zero,
                 RMul(RSub(RMul(RMul(Rat(side, 1), base_scale),
                                Rat(scale, ScaleUnit)),
                           Rat(view, 1)),
                      Rat(1, 2)))
        end_max_off_x == IF fit_mode = "cover" THEN MaxOff(pw, vw, end_scale)
                         ELSE zero
        end_max_off_y == IF fit_mode = "cover" THEN MaxOff(ph, vh, end_scale)
                         ELSE zero
        start_max_off_x == MaxOff(pw, vw, start_scale)
        start_max_off_y == MaxOff(ph, vh, start_scale)
    IN  StartOffsets(movement_pattern, start_max_off_x, start_max_off_y,
                     intensity_factor)
        \X EndOffsets(fit_mode, movement_pattern, end_max_off_x, end_max_off_y)

\* The last Ken Burns computation: the window's settings it read, what it
\* was given and what it returned.
NoKen == [op |-> "none", ken_intensity |-> 5, fit_mode |-> "cover",
          viewport |-> <<4, 4>>, start_scale |-> ScaleUnit,
          end_scale |-> ScaleUnit, pixmap |-> <<0, 0>>,
          movement_pattern |-> "none", start_off |-> <<0, 0>>,
          end_off |-> <<0, 0>>]

\* ----------------------------------------------------------------- history
\* The handler that ran last, with what the window was when it was entered.
NoEvent == [op |-> "none", trans |-> FALSE, idx |-> 0, n |-> 0, path |-> 0,
            consec |-> 0, total |-> 0, cur |-> NoItem, nxt |-> NoItem,
            files |-> <<>>, since |-> Off, cursor |-> 0,
            slide |-> Off, anim |-> Off, paused |-> FALSE,
            clocks |-> <<Off, Off, Off>>,
            errs |-> [p \in Paths |-> 0]]
Event(o, s) == [op |-> o, trans |-> s.is_transitioning, idx |-> s.index,
                n |-> Len(s.image_files), path |-> 0, consec |-> 0,
                total |-> 0,
                cur |-> s.current_item, nxt |-> s.next_item,
                files |-> s.image_files, since |-> Off,
                cursor |-> s.current_effect_index,
                slide |-> s.slide_timer, anim |-> s.animation_timer,
                paused |-> s.is_paused,
                clocks |-> <<s.anim_elapsed_timer, s.pause_duration,
                             s.pause_start_time>>,
                errs |-> s.load_error_count]

\* What the last frame tick computed; cont says the tick before it read the
\* same slide stopwatch, prev_elapsed what that tick computed.
NoFrame == [valid |-> FALSE, elapsed_ms |-> 0, t_linear |-> 0,
            transition_elapsed |-> Off, effect_t |-> 0,
            prev_elapsed |-> 0, cont |-> FALSE, after_nav |-> FALSE]

\* A timeline reading taken when the user pauses.
NoReading == [valid |-> FALSE, ms |-> 0]
Reading(v) == [valid |-> TRUE, ms |-> v]

\* A new animation began or the running one was superseded.
Superseded(h) == [h EXCEPT !.cont = FALSE, !.since = Off]
\* Next, prev or delete put a slide on display: no advance has left it yet
\* and its first tick is still to come.
Displayed(h) == [h EXCEPT !.adv = 0, !.nav = TRUE]
\* One more advance has left the slide on display (counted up to two).
Left1(h) == [h EXCEPT !.adv = Min(@ + 1, 2)]
Unclean(h) == [h EXCEPT !.clean = FALSE, !.cycles = 0]

\* The window after __init__, whatever fade_duration_ms it was given.
InitShow ==
    /\ \E n \in 0 .. MaxImages : image_files = [i \in 1 .. n |-> i]
    /\ flaky \in {f \in SUBSET {image_files[i] : i \in 1 .. Len(image_files)} :
                     Cardinality(f) <= MaxFlaky}
    /\ index = 0
    /\ load_error_count = [p \in Paths |-> 0]
    /\ current_item = NoItem
    /\ next_item = NoItem
    /\ is_transitioning = FALSE
    /\ animating = FALSE
    /\ is_paused = FALSE
    /\ next_effect = NoneEffect
    /\ current_effect_index = 0
    /\ anim_elapsed_timer = Off
    /\ transition_elapsed_timer = Off
    /\ pause_start_time = Off
    /\ pause_duration = Off
    /\ slide_timer = Off
    /\ animation_timer = Off
    /\ single_shots = {}
    /\ is_loading = TRUE
    /\ closed = FALSE
    /\ opacity = NoOpacity
    /\ dialog = 0
    /\ removed_files = {}
    /\ ev = NoEvent
    /\ frame = NoFrame
    /\ pixmap_cache = <<>>
    /\ cache_ev = NoCacheEvent
    /\ hist = [clean |-> TRUE, cycles |-> 0, consec |-> [p \in Paths |-> 0],
               total |-> [p \in Paths |-> 0], since |-> Off, adv |-> 0,
               nav |-> FALSE, succ |-> 0,
               cost |-> 0, now |-> 0, dialog_ms |-> 0, cont |-> FALSE,
               before |-> NoReading, tbefore |-> NoReading]

Init ==
    /\ InitShow /\ fade_duration_ms = FadeMs /\ ken = NoKen
    /\ enabled_effects = DefaultEffects

\* _fade_out_loading, last step: the loading screen is gone, the show starts.
StartShow ==
    /\ is_loading
    /\ \E ok \in (IF image_files = <<>> THEN {TRUE}
                  ELSE DecodeOutcomes(ShownPath(Self))) :
          /\ Becomes(ShowFirstImage([Self EXCEPT !.is_loading = FALSE], ok))
          /\ ev' = Event("start", Self)
          /\ hist' = IF ok THEN hist ELSE Unclean(hist)
    /\ UNCHANGED <<dialog, flaky, removed_files, frame>>

Running == ~is_loading /\ ~closed

Stopwatches == {anim_elapsed_timer, transition_elapsed_timer, pause_start_time}
Armed == ({slide_timer, animation_timer} \cup single_shots) \ {Off}

\* The observer's clock: the user's inputs fall in the first MaxUserMs.
Later(h, d) ==
    LET n == Min(h.now + d, MaxUserMs + 1)
    IN  [h EXCEPT !.now = n,
                  !.cost = IF n > MaxUserMs THEN MaxUserCost ELSE @,
                  !.since = IF @ = Off \/ @ + d > MaxElapsedMs THEN Off
                            ELSE @ + d]

\* Wall-clock time goes by, up to the next timer deadline.
Elapse ==
    /\ Running
    /\ \E d \in {UserDelayMs} \cup Armed :
          /\ d > 0
          /\ \A t \in Armed : d <= t
          /\ \A w \in Stopwatches : w # Off => w + d <= MaxElapsedMs
          /\ is_paused => pause_start_time + d <= MaxPauseMs
          /\ dialog # 0 => hist.dialog_ms + d <= MaxDialogMs
          /\ Becomes(Sleep(Self, d))
          /\ hist' = [Later(hist, d) EXCEPT
                        !.dialog_ms = IF dialog # 0 THEN @ + d ELSE @]
    /\ ev' = [NoEvent EXCEPT !.op = "elapse"]
    /\ UNCHANGED <<dialog, flaky, removed_files, frame>>

\* The periodic frame timer fires: _on_anim_frame.
AnimTimerFires ==
    /\ Running
    /\ animation_timer = 0
    /\ LET s0 == [Self EXCEPT !.animation_timer = anim_fps_interval]
           b == WithTransitionTimer(WithAnimTimer(s0))
           post == OnAnimFrame(s0)
           finalized == s0.is_transitioning /\ ~post.is_transitioning
                            /\ ~post.animating
       IN  /\ Becomes(post)
           /\ ev' = Event(IF FrameRuns(s0) THEN "frame" ELSE "frame_skipped", s0)
           /\ IF FrameRuns(s0)
              THEN /\ frame' =
                        [valid |-> TRUE,
                         elapsed_ms |-> ElapsedMs(b),
                         t_linear |-> Progress(ElapsedMs(b), anim_duration),
                         transition_elapsed |->
                             IF InEffect(b) THEN TransitionElapsed(b) ELSE Off,
                         effect_t |->
                             IF InEffect(b)
                             THEN Progress(TransitionElapsed(b), fade_duration_ms)
                             ELSE 0,
                         prev_elapsed |-> frame.elapsed_ms,
                         cont |-> hist.cont /\ s0.anim_elapsed_timer # Off,
                         after_nav |-> hist.nav]
                   /\ hist' = [hist EXCEPT
                         !.cont = post.anim_elapsed_timer # Off,
                         !.nav = FALSE,
                         !.before = NoReading, !.tbefore = NoReading,
                         !.adv = IF s0.animating /\ ~post.animating THEN 0
                                 ELSE @,
                         !.cycles = IF hist.clean /\ finalized
                                    THEN (@ + 1) % Len(image_files) ELSE @]
              ELSE UNCHANGED <<frame, hist>>
    /\ UNCHANGED <<dialog, flaky, removed_files>>

\* Failed advance attempts on path p in the whole session, this one included
\* (counted up to one past the skip threshold).
SessionFailures(h, p) == Min(h.total[p] + 1, SkipThreshold + 1)

\* The count of successful advances, kept modulo the number of enabled
\* effects.
Successes(k) == IF enabled_effects = << >> THEN 0 ELSE k % Len(enabled_effects)

\* _on_slide_timeout run on the window s0, from either of its two sources.
Advance(s0) ==
    \E fails \in (IF AdvanceLoads(s0) THEN FailChoices(TargetPath(s0)) ELSE {0}) :
        LET post == OnSlideTimeout(s0, fails)
            path == TargetPath(s0)
        IN  /\ Becomes(post)
            /\ IF ~AdvanceLoads(s0)
               THEN /\ ev' = Event(IF s0.animating THEN "advance_noop"
                                   ELSE IF s0.is_paused THEN "advance_paused"
                                   ELSE "advance_empty", s0)
                    /\ hist' = IF post.index # s0.index
                                  \/ post.next_item # s0.next_item
                               THEN Left1(hist) ELSE hist
               ELSE IF fails >= max_retries
               THEN /\ ev' = [Event("advance_failed", s0) EXCEPT
                                 !.path = path,
                                 !.consec = hist.consec[path] + 1,
                                 !.total = SessionFailures(hist, path)]
                    /\ hist' = [Unclean(Superseded(Later(hist, fails * RetrySleepMs)))
                                 EXCEPT
                                 !.total[path] = SessionFailures(hist, path),
                                 !.consec[path] =
                                     IF Len(post.image_files) < Len(s0.image_files)
                                     THEN 0 ELSE @ + 1]
               ELSE /\ ev' = [Event(IF post.animating THEN "advance_ok"
                                    ELSE "advance_raised", s0) EXCEPT
                                 !.path = path,
                                 !.since = IF fails = 0 THEN hist.since ELSE Off]
                    /\ hist' = [(IF fails > 0 \/ ~post.animating
                                 THEN Unclean(Superseded(
                                          Later(hist, fails * RetrySleepMs)))
                                 ELSE Superseded(hist)) EXCEPT
                                 !.consec[path] = 0,
                                 !.adv = IF post.animating
                                         THEN Min(hist.adv + 1, 2) ELSE @,
                                 !.succ = IF post.animating
                                          THEN Successes(@ + 1) ELSE @,
                                 !.since = IF fails = 0 /\ post.animating
                                           THEN 0 ELSE Off]

\* The single-shot slide timer fires.
SlideTimerFires ==
    /\ Running
    /\ slide_timer = 0
    /\ Advance([Self EXCEPT !.slide_timer = Off])
    /\ UNCHANGED <<dialog, flaky, removed_files, frame>>

\* The 50 ms callback scheduled by _finish_animation fires.
SingleShotFires ==
    /\ Running
    /\ 0 \in single_shots
    /\ Advance([Self EXCEPT !.single_shots = @ \ {0}])
    /\ UNCHANGED <<dialog, flaky, removed_files, frame>>

\* ------------------------------------------------------------ user actions
UserCan == Running /\ dialog = 0

UserTogglePause ==
    /\ UserCan
    /\ hist.cost + 1 <= MaxUserCost
    /\ Becomes(TogglePause(Self))
    /\ ev' = Event(IF is_paused THEN "resume" ELSE "pause", Self)
    /\ hist' = IF is_paused THEN [hist EXCEPT !.cost = @ + 1, !.since = Off]
               ELSE [hist EXCEPT
                       !.cost = @ + 1, !.since = Off,
                       !.before = IF animating /\ anim_elapsed_timer # Off
                                  THEN Reading(ElapsedMs(Self)) ELSE NoReading,
                       !.tbefore = IF animating /\ InEffect(Self)
                                      /\ transition_elapsed_timer # Off
                                   THEN Reading(TransitionElapsed(Self))
                                   ELSE NoReading]
    /\ UNCHANGED <<dialog, flaky, removed_files, frame>>

UserGoNext ==
    /\ UserCan
    /\ hist.cost + 2 <= MaxUserCost
    /\ \E ok \in (IF image_files = <<>> THEN {TRUE}
                  ELSE DecodeOutcomes(image_files[NextIndex(Self) + 1])) :
          Becomes(GoNext(Self, ok))
    /\ ev' = Event("go_next", Self)
    /\ hist' = [Displayed(Unclean(Superseded(hist))) EXCEPT !.cost = @ + 2]
    /\ UNCHANGED <<dialog, flaky, removed_files, frame>>

UserGoPrev ==
    /\ UserCan
    /\ hist.cost + 2 <= MaxUserCost
    /\ \E ok \in (IF image_files = <<>> THEN {TRUE}
                  ELSE DecodeOutcomes(
                           image_files[((index - 1 + Len(image_files))
                                            % Len(image_files)) + 1])) :
          Becomes(GoPrev(Self, ok))
    /\ ev' = Event("go_prev", Self)
    /\ hist' = [Displayed(Unclean(Superseded(hist))) EXCEPT !.cost = @ + 2]
    /\ UNCHANGED <<dialog, flaky, removed_files, frame>>

\* _delete_current_image up to its blocking confirmation dialog.
UserDeleteAsk ==
    /\ UserCan
    /\ hist.cost + 3 <= MaxUserCost
    /\ image_files # <<>>
    /\ index < Len(image_files)
    /\ dialog' = ShownPath(Self)
    /\ ev' = Event("delete_ask", Self)
    /\ hist' = [hist EXCEPT !.cost = @ + 3, !.dialog_ms = 0]
    /\ UNCHANGED <<progVars, flaky, removed_files, frame, pureVars>>

\* The image _delete_current_image shows once the entry at index is gone.
ShownAfterDelete(s) ==
    LET files == DeleteAt(s.image_files, s.index)
    IN  files[(IF s.index >= Len(files) THEN 0 ELSE s.index) + 1]

\* The user answers the dialog; on Yes the rest of _delete_current_image runs.
UserDeleteAnswer ==
    /\ Running
    /\ dialog # 0
    /\ \E yes \in BOOLEAN :
       \E rm_ok \in (IF dialog \in removed_files THEN {FALSE} ELSE BOOLEAN) :
       \E ok \in (IF yes /\ rm_ok /\ index < Len(image_files)
                     /\ Len(image_files) > 1
                  THEN (IF ShownAfterDelete(Self) = dialog THEN {FALSE}
                        ELSE DecodeOutcomes(ShownAfterDelete(Self)))
                  ELSE {TRUE}) :
          IF yes
          THEN /\ Becomes(DeleteConfirmed(Self, rm_ok, ok))
               /\ removed_files' = IF rm_ok THEN removed_files \cup {dialog}
                                   ELSE removed_files
               /\ ev' = [Event(IF rm_ok /\ index < Len(image_files)
                               THEN "delete_yes" ELSE "delete_error", Self)
                            EXCEPT !.path = dialog]
               /\ hist' = IF rm_ok /\ index < Len(image_files)
                          THEN Displayed(Unclean(Superseded(hist)))
                          ELSE Unclean(Superseded(hist))
          ELSE /\ UNCHANGED <<progVars, removed_files, hist, pureVars>>
               /\ ev' = Event("delete_no", Self)
    /\ dialog' = 0
    /\ UNCHANGED <<flaky, frame>>

Next ==
    \/ StartShow
    \/ Elapse
    \/ AnimTimerFires
    \/ SlideTimerFires
    \/ SingleShotFires
    \/ UserTogglePause
    \/ UserGoNext
    \/ UserGoPrev
    \/ UserDeleteAsk
    \/ UserDeleteAnswer

Spec == Init /\ [][Next]_vars

\* The same show with the event loop doing its part: time goes by and a
\* timer that is due fires.  Nothing is asked of the user.
FairSpec ==
    /\ Init /\ [][Next]_vars
    /\ WF_vars(StartShow)
    /\ WF_vars(Elapse)
    /\ WF_vars(AnimTimerFires)
    /\ WF_vars(SlideTimerFires)
    /\ WF_vars(SingleShotFires)

\* ------------------------------------------------- the cache, on its own
CacheInit == Init /\ image_files = <<>> 

ScaledRequest ==
    /\ \E key \in CacheKeys : \E null \in BOOLEAN : \E scaled_ok \in BOOLEAN :
          /\ pixmap_cache' = GetScaledPixmap(pixmap_cache, key, null, scaled_ok)
          /\ cache_ev' = [before |-> pixmap_cache, key |-> key,
                          stored |-> ~null /\ scaled_ok
                                        /\ ~Holds(pixmap_cache, key)]
    /\ UNCHANGED <<showVars, ken>>

CacheNext == ScaledRequest

CacheSpec == CacheInit /\ [][CacheNext]_vars

\* ------------------------------------------- Ken Burns parameters, on their own
\* A window of any intensity the settings slider offers, either fit mode.
KenInit ==
    /\ InitShow /\ fade_duration_ms = FadeMs /\ image_files = <<>>
    /\ enabled_effects = DefaultEffects
    /\ \E i \in MinIntensity .. MaxIntensity, f \in FitModes, v \in Viewports :
           ken = [NoKen EXCEPT !.ken_intensity = i, !.fit_mode = f,
                               !.viewport = v]

KenBurnsScales ==
    /\ \E r1 \in RandomDraws, r2 \in RandomDraws :
           LET s == CalculateKenBurnsScales(ken.ken_intensity, r1, r2)
           IN  ken' = [NoKen EXCEPT !.ken_intensity = ken.ken_intensity,
                                    !.fit_mode = ken.fit_mode,
                                    !.viewport = ken.viewport,
                                    !.op = "scales", !.start_scale = s[1],
                                    !.end_scale = s[2]]
    /\ UNCHANGED <<showVars, pixmap_cache, cache_ev>>

\* The callers compute the scales, then pass them on with a pixmap that is
\* not null.
KenBurnsOffsets ==
    /\ ken.op = "scales"
    /\ \E pw \in Sizes, ph \in Sizes, pat \in MOVEMENT_PATTERNS :
       \E o \in CalculateKenBurnsOffsets(pw, ph, ken.viewport[1],
                                         ken.viewport[2], ken.fit_mode,
                                         ken.ken_intensity, pat,
                                         ken.start_scale, ken.end_scale) :
           ken' = [ken EXCEPT !.op = "offsets", !.pixmap = <<pw, ph>>,
                              !.movement_pattern = pat,
                              !.start_off = o[1], !.end_off = o[2]]
    /\ UNCHANGED <<showVars, pixmap_cache, cache_ev>>

KenNext == KenBurnsScales \/ KenBurnsOffsets

KenSpec == KenInit /\ [][KenNext]_vars

\* ------------------------------------ timer-driven playback, on its own
\* Nobody touches the keyboard; the show was started with either a fade
\* shorter than the slide or one longer than it.
TimerInit ==
    /\ InitShow /\ fade_duration_ms \in {FadeMs, LongFadeMs} /\ ken = NoKen
    /\ enabled_effects = DefaultEffects

TimerNext ==
    \/ StartShow
    \/ Elapse
    \/ AnimTimerFires
    \/ SlideTimerFires
    \/ SingleShotFires

TimerSpec == TimerInit /\ [][TimerNext]_vars

\* ------------------------------------ the transition effects, on their own
\* The effects as the settings dialog lists them.
AllEffects == <<"crossfade", "slide", "zoom", "wipe", "fade_to_black">>
\* No effect ticked, one, the two of the other specifications, all.
EffectLists == {<< >>, <<"fade_to_black">>, DefaultEffects, AllEffects}

\* Timer-driven playback of a window given any of these lists and either a
\* short fade or the usual one.
EffectInit ==
    /\ InitShow /\ fade_duration_ms \in {ShortFadeMs, FadeMs} /\ ken = NoKen
    /\ enabled_effects \in EffectLists

EffectSpec == EffectInit /\ [][TimerNext]_vars

\* ------------------------------------------------------------------ claims
InPlaylist(p) == \E i \in 1 .. Len(image_files) : image_files[i] = p

\* C1: in timer-driven playback where every image decodes and the user
\* neither navigates nor deletes, the index after k completed advance cycles
\* is (0 + k) mod N; the index moves when the cycle's transition starts.
C1_IndexAdvancesModN ==
    (hist.clean /\ Running /\ image_files # <<>>) =>
        index = (hist.cycles + (IF is_transitioning THEN 1 ELSE 0))
                    % Len(image_files)

\* C1 witness: a two-image show has just finished its second cycle and is
\* back on the first image.
C1_Wrapped ==
    /\ hist.clean /\ Len(image_files) = 2
    /\ ev.op = "frame" /\ ev.trans /\ ~is_transitioning
    /\ hist.cycles = 0 /\ index = 0

\* C2: when _go_next is called during a transition, on return the window is
\* not transitioning, exactly one layer exists (no next layer) and shows
\* image_files[index], and index is the index before plus one mod N.
C2_GoNextEndsTransition ==
    (ev.op = "go_next" /\ ev.trans /\ ev.n > 0) =>
        /\ ~is_transitioning
        /\ current_item = LiveItem(image_files[index + 1])
        /\ next_item.st # "live"
        /\ index = (ev.idx + 1) % ev.n

\* C3: when the target image fails to decode on three consecutive advance
\* attempts, the third failure removes its path from the playlist, which gets
\* one shorter, and, if it is not empty, another advance attempt is scheduled.
C3_ThirdFailureSkips ==
    (ev.op = "advance_failed" /\ ev.consec = SkipThreshold) =>
        /\ ~InPlaylist(ev.path)
        /\ Len(image_files) = ev.n - 1
        /\ image_files # <<>> => slide_timer = RetryDelayMs

\* C3 witness: the third failure in a row dropped a path and left a playlist.
C3_Skipped ==
    /\ ev.op = "advance_failed" /\ ev.consec = SkipThreshold
    /\ ~InPlaylist(ev.path) /\ image_files # <<>>
    /\ slide_timer = RetryDelayMs

\* C4: with a playlist that holds an image which decodes, and while not
\* paused, a timer that leads to a further advance is armed after every
\* handler, whichever decodes have failed.
C4_NeverHalts ==
    (Running /\ ~is_paused /\ image_files # <<>>
        /\ \E i \in 1 .. Len(image_files) :
              image_files[i] \notin (flaky \cup removed_files))
    => Armed # {}

\* C5: a pause taken while the slide timeline runs adds nothing to it: the
\* effective elapsed time right after the resume is what it was right before
\* the pause, whatever the pause's length and however many came before.
C5_PauseAddsNoSlideProgress ==
    (ev.op = "resume" /\ hist.before.valid) =>
        ElapsedMs(Self) = hist.before.ms

\* C5 witness: the second resume of one slide, after a pause of two delays.
C5_SecondResume ==
    /\ ev.op = "resume" /\ hist.before.valid
    /\ hist.cost = 4 /\ pause_duration >= 3 * UserDelayMs
    /\ anim_elapsed_timer > pause_duration

\* C6: a pause taken during a transition adds nothing to the transition
\* timeline: its elapsed time right after the resume is within one frame
\* interval of what it was right before the pause.
C6_PauseAddsNoTransitionProgress ==
    (ev.op = "resume" /\ hist.tbefore.valid) =>
        /\ TransitionElapsed(Self) - hist.tbefore.ms <= anim_fps_interval
        /\ hist.tbefore.ms - TransitionElapsed(Self) <= anim_fps_interval

\* C7 as stated: the tick at which the transition timeline's linear progress
\* reaches 1.0 finalizes the transition.
C7_FinalizedAtTransitionEnd ==
    (ev.op = "frame" /\ ev.trans /\ frame.transition_elapsed # Off
        /\ frame.effect_t = fade_duration_ms)
    => ~is_transitioning

\* C7 amended: a tick finalizes a transition only when the slide timeline's
\* linear progress has reached 1.0, and the tick at which it does, with both
\* layers in the scene, promotes the next layer, drops the old one and ends
\* the transition.
C7_FinalizedAtSlideEnd ==
    (ev.op = "frame" /\ ev.trans) =>
        /\ ~is_transitioning => frame.t_linear = anim_duration
        /\ (frame.t_linear = anim_duration
                /\ ev.cur.st = "live" /\ ev.nxt.st = "live")
           => /\ ~is_transitioning /\ ~animating
              /\ current_item = ev.nxt /\ next_item = NoItem

\* C7 witness: a tick finalized a transition whose effect had long finished.
C7_Finalized ==
    /\ ev.op = "frame" /\ ev.trans /\ ~is_transitioning
    /\ frame.t_linear = anim_duration
    /\ frame.effect_t = fade_duration_ms
    /\ frame.transition_elapsed > fade_duration_ms + anim_fps_interval
    /\ current_item = ev.nxt /\ current_item.st = "live"

\* C8: after every handler a next layer exists exactly when the window is
\* transitioning, whatever the decode outcomes.
C8_NextLayerIffTransitioning ==
    Running => (is_transitioning <=> next_item.st = "live")

\* C9: at every tick the slide timeline's effective elapsed time is not
\* negative, and it does not decrease from one tick to the next.
C9_ElapsedMonotone ==
    (ev.op = "frame") =>
        /\ frame.elapsed_ms >= 0
        /\ frame.cont => frame.elapsed_ms >= frame.prev_elapsed

\* C10: linear progress never exceeds 1.0 on either timeline, is 1.0 from the
\* configured duration on, and the first tick whose slide progress is 1.0
\* finalizes the animation.
C10_ProgressCappedAndFinal ==
    (ev.op = "frame") =>
        /\ frame.t_linear <= anim_duration
        /\ frame.elapsed_ms >= anim_duration => frame.t_linear = anim_duration
        /\ frame.effect_t <= fade_duration_ms
        /\ frame.transition_elapsed >= fade_duration_ms
              => frame.effect_t = fade_duration_ms
        /\ frame.t_linear = anim_duration => ~animating

\* C11: the scaled-pixmap cache never holds more than cache_max_size (3)
\* entries, and storing a fourth distinct key evicts exactly the oldest one.
C11_CacheBounded ==
    /\ Len(pixmap_cache) <= cache_max_size
    /\ (cache_ev.stored /\ Len(cache_ev.before) = cache_max_size)
          => pixmap_cache = Append(Tail(cache_ev.before), cache_ev.key)

\* C12 as stated: the failure counter is cumulative over the session, so the
\* third failed advance attempt on a path removes it, successful loads of
\* the path in between or not.
C12_ThirdSessionFailureSkips ==
    (ev.op = "advance_failed" /\ ev.total = SkipThreshold) =>
        ~InPlaylist(ev.path)

\* C12 amended: a failed advance attempt removes its path exactly when it is
\* the third failure since the last advance attempt that loaded the path.
C12_ThirdFailureSinceLoadSkips ==
    (ev.op = "advance_failed") =>
        (~InPlaylist(ev.path) <=> ev.consec >= SkipThreshold)

\* C12 witness: a path is dropped at its fourth failure of the session,
\* having been loaded once in between.
C12_SkippedAtFourth ==
    /\ ev.op = "advance_failed" /\ ~InPlaylist(ev.path)
    /\ ev.consec = SkipThreshold /\ ev.total = SkipThreshold + 1

\* C13: when a permanent skip removes the last entry of the playlist, no
\* image layer is displayed, the empty-playlist presentation is shown and
\* neither the advance timer nor the frame timer is armed.
C13_SkipToEmptyShowsEmptyState ==
    (ev.op = "advance_failed" /\ ev.n > 0 /\ image_files = <<>>) =>
        /\ current_item = [st |-> "live", img |-> 0]
        /\ next_item.st # "live"
        /\ slide_timer = Off /\ animation_timer = Off /\ single_shots = {}

C15_DeleteThenNext ==
    (ev.op = "delete_yes" /\ ev.n >= 2) =>
        /\ image_files = DeleteAt(ev.files, ev.idx)
        /\ Len(image_files) = ev.n - 1
        /\ current_item = LiveItem(ev.files[((ev.idx + 1) % ev.n) + 1])
        /\ image_files[index + 1] = ev.files[((ev.idx + 1) % ev.n) + 1]
        /\ next_item.st # "live"
        /\ ~is_transitioning /\ ~is_paused

\* The frame ticks an animation takes: one starts the slide stopwatch, then
\* as many as it takes the stopwatch to read the slide duration.
TicksToFinish ==
    1 + (anim_duration + anim_fps_interval - 1) \div anim_fps_interval

\* C16: the time between two consecutive timer-driven advances is the slide
\* duration plus the 50 ms re-arm delay, rounded up to frame ticks, and is
\* the same whatever the fade duration.
C16_CycleIndependentOfFade ==
    (ev.op = "advance_ok" /\ ev.since # Off) =>
        /\ ev.since = TicksToFinish * anim_fps_interval + FinishDelayMs
        /\ ev.since >= anim_duration + FinishDelayMs
        /\ ev.since < anim_duration + FinishDelayMs + 2 * anim_fps_interval

\* C16 witness: a show whose fade is longer than its slide advanced twice.
C16_AdvancedUnderLongFade ==
    /\ ev.op = "advance_ok" /\ ev.since # Off
    /\ fade_duration_ms = LongFadeMs /\ fade_duration_ms > anim_duration
    /\ ev.trans = FALSE /\ is_transitioning

\* C17: for every intensity from 1 to 10 and every draw, the start scale is
\* within 1.05 .. 2.0 and the end scale within 1.0 .. 1.05.
C17_ScalesWithinRange ==
    ken.op = "scales" =>
        /\ 1050 <= ken.start_scale /\ ken.start_scale <= 2000
        /\ ScaleUnit <= ken.end_scale /\ ken.end_scale <= 1050

\* C17 witness: the lowest intensity, where only the clamp gives 1.05.
C17_ClampedAtLowest ==
    /\ ken.op = "scales" /\ ken.ken_intensity = MinIntensity
    /\ ken.start_scale = 1050 /\ ken.end_scale > ScaleUnit

\* C18: the end offset returned is (0, 0) whenever the fit mode is contain,
\* and whenever it is cover and the pattern drawn is spiral_in.
C18_EndOffsetCentred ==
    (/\ ken.op = "offsets"
     /\ \/ ken.fit_mode = "contain"
        \/ ken.fit_mode = "cover" /\ ken.movement_pattern = "spiral_in")
    => ken.end_off = <<0, 0>>

\* C18 witness: a contain-mode pan that starts off centre and ends centred.
C18_ContainPanEndsCentred ==
    /\ ken.op = "offsets" /\ ken.fit_mode = "contain"
    /\ ken.movement_pattern = "linear"
    /\ ken.start_off # <<0, 0>> /\ ken.end_off = <<0, 0>>

\* C19: when timer events run while the confirmation dialog is open, the
\* entry a confirmed delete takes out of the playlist is the path it deleted
\* from the disk: the playlist keeps no deleted path and loses no other.
C19_RemovedEntryIsDeletedFile ==
    ev.op = "delete_yes" =>
        /\ ~InPlaylist(ev.path)
        /\ \A i \in 1 .. Len(ev.files) :
               ev.files[i] # ev.path => InPlaylist(ev.files[i])

\* C20: a permanent skip touches the removed path only: after it, index
\* still designates the image on screen, and the next advance targets the
\* entry that followed the removed one in cyclic order.
C20_SkipKeepsPosition ==
    (/\ ev.op = "advance_failed" /\ Len(image_files) < ev.n
     /\ image_files # <<>>
     /\ ev.cur.st = "live" /\ ev.idx < ev.n
     /\ ev.files[ev.idx + 1] = ev.cur.img)
    => /\ ShownPath(Self) = ev.cur.img
       /\ TargetPath(Self) = ev.files[((ev.idx + 2) % ev.n) + 1]

\* C21: each finalized animation leads to at most one successful advance,
\* whichever of the slide timer and the 50 ms callback fires first: the
\* advance moves index by one and creates the next layer when there is none.
C21_OneAdvancePerSlide ==
    /\ hist.adv <= 1
    /\ ev.op = "advance_ok" =>
           /\ index = (ev.idx + 1) % ev.n
           /\ ev.nxt.st # "live" /\ next_item.st = "live"

\* C21 witness: the slide timer armed by a resume and the 50 ms callback
\* both fired after one finalization; the second found the transition
\* running and did nothing.
C21_SecondTimerIgnored ==
    /\ ev.op = "advance_noop" /\ ev.trans /\ hist.adv = 1
    /\ is_transitioning /\ next_item.st = "live"
    /\ slide_timer = Off /\ single_shots = {}

\* C22: when next, prev or delete supersedes a running animation, the slide
\* time base is reset: at the first tick of the image then shown the slide
\* timeline's effective elapsed time is 0 and no pause time is accumulated.
C22_NavResetsTimeBase ==
    (ev.op = "frame" /\ frame.after_nav) =>
        /\ frame.elapsed_ms = 0
        /\ pause_duration \in {Off, 0}

\* C23: whenever the playlist is not empty, 0 <= index < len(image_files),
\* whatever timer advances, permanent skips, next/prev and confirmed deletes
\* came before.
C23_IndexInRange ==
    image_files # <<>> => (0 <= index /\ index < Len(image_files))

\* C23 witness: a permanent skip shortened the playlist to the length index
\* had, and index was brought back into range.
C23_SkipReducedIndex ==
    /\ ev.op = "advance_failed" /\ Len(image_files) = ev.n - 1
    /\ image_files # <<>> /\ ev.idx = Len(image_files)
    /\ index = 0

\* C24: an advance attempt whose decode fails on all three tries, on a path
\* that stays below the skip threshold, consumes no slide: index, playlist,
\* current layer, is_transitioning, animating and the effect cursor are as
\* before, the path's failure counter is one higher, and the slide timer is
\* armed for 100 ms.
C24_FailedAttemptConsumesNothing ==
    (ev.op = "advance_failed" /\ ev.errs[ev.path] + 1 < SkipThreshold) =>
        /\ index = ev.idx /\ image_files = ev.files
        /\ current_item = ev.cur /\ next_item = ev.nxt
        /\ is_transitioning = ev.trans /\ ~animating
        /\ current_effect_index = ev.cursor
        /\ load_error_count = [ev.errs EXCEPT ![ev.path] = @ + 1]
        /\ slide_timer = RetryDelayMs

\* C24 witness: the second failed attempt in a row on one path.
C24_SecondFailure ==
    /\ ev.op = "advance_failed" /\ ev.errs[ev.path] = 1
    /\ load_error_count[ev.path] = 2 /\ InPlaylist(ev.path)
    /\ slide_timer = RetryDelayMs /\ current_item.st = "live"

\* C25: a timer-driven advance that fires while animating is true does
\* nothing: index, playlist, both layers, is_transitioning, the failure
\* counters, the effect cursor and both timers are as the handler found them.
C25_AdvanceWhileAnimatingIsNoop ==
    ev.op = "advance_noop" =>
        /\ animating
        /\ index = ev.idx /\ image_files = ev.files
        /\ current_item = ev.cur /\ next_item = ev.nxt
        /\ is_transitioning = ev.trans
        /\ load_error_count = ev.errs
        /\ current_effect_index = ev.cursor
        /\ slide_timer = ev.slide /\ animation_timer = ev.anim

\* C25 witness: the slide timer fired in the middle of a plain slide.
C25_FiredDuringSlide ==
    /\ ev.op = "advance_noop" /\ ~ev.trans /\ ~is_transitioning
    /\ animating /\ animation_timer # Off /\ current_item.st = "live"
    /\ anim_elapsed_timer # Off /\ anim_elapsed_timer < anim_duration

\* The handlers the timers call.
TimerEvents == {"advance_noop", "advance_paused", "advance_empty",
                "advance_ok", "advance_raised", "advance_failed",
                "frame", "frame_skipped"}

\* C26: while is_paused is true no timer event (slide timer, 50 ms callback,
\* frame tick) changes index, the playlist, either layer, is_transitioning or
\* the slide timeline.
C26_PausedTimerEventsChangeNothing ==
    (ev.op \in TimerEvents /\ ev.paused) =>
        /\ is_paused
        /\ index = ev.idx /\ image_files = ev.files
        /\ current_item = ev.cur /\ next_item = ev.nxt
        /\ is_transitioning = ev.trans
        /\ <<anim_elapsed_timer, pause_duration, pause_start_time>> = ev.clocks
        /\ animation_timer = ev.anim

\* C26 witness: the 50 ms callback came due during a pause, with the slide
\* shown and its stopwatches as the pause left them.
C26_CallbackDuringPause ==
    /\ ev.op = "advance_paused" /\ ev.paused /\ is_paused
    /\ ev.slide = Off /\ slide_timer = interval_ms
    /\ current_item.st = "live" /\ index = ev.idx
    /\ pause_start_time # Off /\ pause_start_time > 0

\* C27: while the window is open, animating and not paused implies the frame timer is armed, and so,
\* with timers delivered and no further pause, every animation that runs
\* gets finalized (animating becomes false).
C27_AnimationsFinish ==
    /\ [](Running /\ animating /\ ~is_paused => animation_timer # Off)
    /\ (Running /\ animating /\ ~is_paused)
           ~> (~animating \/ is_paused \/ closed)

\* C28: at every tick of a fade_to_black transition, with eased progress t
\* and whatever the spacing of the ticks: while t < 0.4 the current layer's
\* opacity is 1 - t/0.4 and the next layer's 0; while 0.4 <= t < 0.6 both
\* are 0; from t >= 0.6 the current layer's is 0 and the next layer's
\* (t - 0.6)/0.4.
C28_FadeToBlackOpacities ==
    (ev.op = "frame" /\ is_transitioning /\ next_effect = "fade_to_black"
        /\ current_item.st = "live" /\ next_item.st = "live") =>
        LET x == frame.effect_t
            phase == FadePhase(x, fade_duration_ms)
        IN  /\ phase = 1 => /\ opacity.current = FadeOut(x, fade_duration_ms)
                            /\ opacity.next = Transparent
            /\ phase = 2 => /\ opacity.current = Transparent
                            /\ opacity.next = Transparent
            /\ phase = 3 => /\ opacity.current = Transparent
                            /\ opacity.next = FadeIn(x, fade_duration_ms)

\* C29: whichever effect _select_next_effect returned, "none" included, once
\* a tick has seen the transition's progress at 1.0 the incoming layer has
\* opacity 1.
C29_IncomingVisibleAfterEffect ==
    (ev.op = "frame" /\ is_transitioning /\ next_item.st = "live"
        /\ current_item.st = "live"
        /\ frame.effect_t = fade_duration_ms) =>
        opacity.next = Opaque

\* C30: with the sequential order the k-th successful advance uses the
\* enabled effect at position (k - 1) mod m; failed advance attempts and
\* manual navigation take no position.
C30_SequentialRotation ==
    (ev.op = "advance_ok" /\ enabled_effects # << >>) =>
        LET m == Len(enabled_effects)
        IN  next_effect = enabled_effects[((hist.succ + m - 1) % m) + 1]

====
